---- MODULE Spec2Model ----
(***************************************************************************)
(* Model of web_analytics_connector.py: GoogleAnalyticsConnector and       *)
(* SimilarwebConnector.  Each public method is one action; the JSON        *)
(* response of the HTTP collaborator and the verdict of the validation     *)
(* collaborator are inputs of the action.                                  *)
(*                                                                         *)
(* Python values are modelled as follows.                                  *)
(*   dict (insertion ordered)  sequence of <<key, cell>> pairs, keys unique*)
(*   JSON object               function whose DOMAIN is the set of keys     *)
(*   DataFrame                 [columns : Seq(name), data : Seq(Seq(cell))] *)
(*   cell                      [t, s, n], t in str / float / date / nan /   *)
(*                             nat; floats are kept in hundredths, dates    *)
(*                             as the number yyyymmdd                       *)
(*   exception                 the err field of a result, "none" if absent  *)
(***************************************************************************)
EXTENDS Integers, Sequences, FiniteSets, TLC

VARIABLES ga, sw, last

vars == <<ga, sw, last>>

\* ------------------------------------------------------------------ bounds

\* Longest rows / visits array of a response.
MaxRows == 2

\* Longest dimensionHeaders / metricHeaders list of a response.
MaxHeaders == 2

\* Number of HTTP requests the model lets the two connectors issue in total.
MaxRequests == 2

\* ------------------------------------------------------- program constants

GA_BASE_URL == "https://analyticsdata.googleapis.com/v1beta"

GA_RATE_LIMIT_REQUESTS == 100

GA_RATE_LIMIT_WINDOW == 100

SW_BASE_URL == "https://api.similarweb.com/v1"

SW_RATE_LIMIT_REQUESTS == 100

SW_RATE_LIMIT_WINDOW == 3600

\* ------------------------------------------------------------------- cells

StrCell(s) == [t |-> "str", s |-> s, n |-> 0]

FloatCell(n) == [t |-> "float", s |-> "", n |-> n]

DateCell(n) == [t |-> "date", s |-> "", n |-> n]

NaN == [t |-> "nan", s |-> "", n |-> 0]

NaT == [t |-> "nat", s |-> "", n |-> 0]

\* float(s): the value in hundredths, or -1 when Python raises ValueError.
\* The strings are the literals the modelled responses carry.
ParseFloat(s) ==
    CASE s = "10" -> 1000
      [] s = "8" -> 800
      [] s = "123.45" -> 12345
      [] OTHER -> -1

\* pd.to_datetime of one string: yyyymmdd, or -1 when pandas raises.
ParseDate(s) ==
    CASE s = "20240115" -> 20240115
      [] s = "2024-01-15" -> 20240115
      [] s = "2024-01" -> 20240101
      [] s = "2024-02" -> 20240201
      [] OTHER -> -1

\* ------------------------------------------------------------------- dicts

Keys(d) == [i \in 1..Len(d) |-> d[i][1]]

HasKey(d, k) == \E i \in 1..Len(d) : d[i][1] = k

\* d[k] = v of a Python dict: an existing key keeps its position.
DictSet(d, k, v) ==
    IF HasKey(d, k)
    THEN [i \in 1..Len(d) |-> IF d[i][1] = k THEN <<k, v>> ELSE d[i]]
    ELSE Append(d, <<k, v>>)

\* d.get(k, NaN), as pandas fills a missing key.
DictGet(d, k) ==
    IF HasKey(d, k)
    THEN d[CHOOSE i \in 1..Len(d) : d[i][1] = k][2]
    ELSE NaN

Contains(seq, x) == \E i \in 1..Len(seq) : seq[i] = x

IndexOf(seq, x) == CHOOSE i \in 1..Len(seq) : seq[i] = x

\* ---------------------------------------------------------------- DataFrame

EmptyFrame == [columns |-> <<>>, data |-> <<>>]

RECURSIVE AddKeys(_, _)
\* The keys of ks not yet in cols, appended in order.
AddKeys(cols, ks) ==
    IF ks = <<>> THEN cols
    ELSE AddKeys(IF Contains(cols, Head(ks)) THEN cols ELSE Append(cols, Head(ks)),
                 Tail(ks))

RECURSIVE UnionKeys(_, _)
\* Column labels of pd.DataFrame(list of dicts): keys in order of first use.
UnionKeys(cols, dicts) ==
    IF dicts = <<>> THEN cols
    ELSE UnionKeys(AddKeys(cols, Keys(Head(dicts))), Tail(dicts))

\* pd.DataFrame(list of dicts): one row per dict, NaN where a key is missing.
\* A dict without keys still gives a row (the index has one entry per dict).
DataFrame(dicts) ==
    LET cols == UnionKeys(<<>>, dicts)
    IN [columns |-> cols,
        data |-> [r \in 1..Len(dicts) |->
                    [c \in 1..Len(cols) |-> DictGet(dicts[r], cols[c])]]]

\* Variant of SetColumn: a column the frame already has is left as it is.
SetColumn_KeepsExisting(df, col, cell) ==
    IF Contains(df.columns, col)
    THEN df
    ELSE [columns |-> Append(df.columns, col),
          data |-> [r \in 1..Len(df.data) |-> Append(df.data[r], cell)]]

\* df[col] = scalar: overwrites the column in place or appends a new one.
SetColumn(df, col, cell) ==
    IF Contains(df.columns, col)
    THEN [columns |-> df.columns,
          data |-> [r \in 1..Len(df.data) |->
                      [c \in 1..Len(df.columns) |->
                         IF df.columns[c] = col THEN cell ELSE df.data[r][c]]]]
    ELSE [columns |-> Append(df.columns, col),
          data |-> [r \in 1..Len(df.data) |-> Append(df.data[r], cell)]]

\* pd.to_datetime of one cell; t = "err" when the string does not parse.
ToDatetimeCell(cell) ==
    CASE cell.t = "str" ->
           IF ParseDate(cell.s) < 0 THEN [t |-> "err", s |-> cell.s, n |-> 0]
           ELSE DateCell(ParseDate(cell.s))
      [] cell.t = "nan" -> NaT
      [] cell.t = "float" -> DateCell(19700101)
      [] OTHER -> cell

\* df[col] = pd.to_datetime(df[col]) for an existing column.
ToDatetime(df, col) ==
    LET c == IndexOf(df.columns, col)
        conv == [r \in 1..Len(df.data) |-> ToDatetimeCell(df.data[r][c])]
    IN IF \E r \in 1..Len(df.data) : conv[r].t = "err"
       THEN [err |-> "ValueError", df |-> df]
       ELSE [err |-> "none",
             df |-> [columns |-> df.columns,
                     data |-> [r \in 1..Len(df.data) |->
                                 [k \in 1..Len(df.columns) |->
                                    IF k = c THEN conv[r] ELSE df.data[r][k]]]]]

\* ------------------------------------------------- collaborators (base class)

Str(s) == [kind |-> "str", v |-> s]

Obj(m) == [kind |-> "obj", v |-> m]

\* An argument the caller did not pass: the collaborator's default applies.
Unset == [kind |-> "unset", v |-> "unset"]

\* Positional parameters of _make_request after self, in order.
MakeRequestSlots == <<"endpoint", "method", "params">>

\* The request _make_request receives from a call with the given positional
\* arguments and keyword arguments (a function from parameter name to value).
BindRequest(positional, keywords) ==
    [slot \in {"endpoint", "method", "params", "data"} |->
       IF \E i \in 1..Len(positional) : MakeRequestSlots[i] = slot
       THEN positional[CHOOSE i \in 1..Len(positional) : MakeRequestSlots[i] = slot]
       ELSE IF slot \in DOMAIN keywords THEN keywords[slot]
       ELSE Unset]

\* _make_request: the decoded JSON document, or TransportError / ApiError.
MakeRequest(http) ==
    IF http.err = "none" THEN [err |-> "none", json |-> http.json]
    ELSE [err |-> http.err, json |-> <<>>]

\* _validate_data: the table unchanged, or ValidationError.
ValidateData(df, verdict) ==
    IF verdict THEN [err |-> "none", df |-> df]
    ELSE [err |-> "ValidationError", df |-> EmptyFrame]

\* -------------------------------------------------- outcome of one invocation

\* kind: "table" (a DataFrame is returned), "error" (an exception leaves the
\* method), "none" (the method returns None), "catalog" (a list is returned).
Outcome(requests, steps, kind, error, table, validated) ==
    [requests |-> requests, steps |-> steps, kind |-> kind, error |-> error,
     table |-> table, validated |-> validated, catalog |-> <<>>]

Raised(requests, steps, error, validated) ==
    Outcome(requests, steps, "error", error, EmptyFrame, validated)

Returned(requests, steps, table, validated) ==
    Outcome(requests, steps, "table", "none", table, validated)

\* ------------------------------------------------ GoogleAnalyticsConnector

GA_Catalog ==
    << [name |-> "sessions", type |-> "metric"],
       [name |-> "users", type |-> "metric"],
       [name |-> "pageviews", type |-> "metric"],
       [name |-> "bounceRate", type |-> "metric"],
       [name |-> "sessionDuration", type |-> "metric"],
       [name |-> "date", type |-> "dimension"],
       [name |-> "country", type |-> "dimension"],
       [name |-> "deviceCategory", type |-> "dimension"],
       [name |-> "source", type |-> "dimension"],
       [name |-> "medium", type |-> "dimension"] >>

\* Variant of get_available_datasets: the catalog is fetched from the API.
GA_get_available_datasets_Live ==
    [requests |-> << BindRequest(<<Str("metadata")>>, <<>>) >>, steps |-> <<"request">>,
     kind |-> "catalog", error |-> "none",
     table |-> EmptyFrame, validated |-> <<>>, catalog |-> GA_Catalog]

GA_get_available_datasets ==
    [requests |-> <<>>, steps |-> <<>>, kind |-> "catalog", error |-> "none",
     table |-> EmptyFrame, validated |-> <<>>, catalog |-> GA_Catalog]

\* [h['name'] for h in response.get(key, [])]
HeaderNames(response, key) ==
    IF key \in DOMAIN response
    THEN [i \in 1..Len(response[key]) |-> response[key][i].name]
    ELSE <<>>

RECURSIVE AddDimensions(_, _, _, _)
\* for i, dim_value in enumerate(...): row_data[dimension_headers[i]] = value
AddDimensions(row_data, vals, headers, i) ==
    IF i > Len(vals) THEN [err |-> "none", dict |-> row_data]
    ELSE IF i > Len(headers) THEN [err |-> "IndexError", dict |-> row_data]
    ELSE AddDimensions(DictSet(row_data, headers[i], StrCell(vals[i].value)),
                       vals, headers, i + 1)

RECURSIVE AddMetrics_DefaultsNaN(_, _, _, _)
\* Variant of AddMetrics: a non-numeric value becomes NaN instead of raising.
AddMetrics_DefaultsNaN(row_data, vals, headers, i) ==
    IF i > Len(vals) THEN [err |-> "none", dict |-> row_data]
    ELSE IF i > Len(headers) THEN [err |-> "IndexError", dict |-> row_data]
    ELSE AddMetrics_DefaultsNaN(
           DictSet(row_data, headers[i],
                   IF ParseFloat(vals[i].value) < 0 THEN NaN
                   ELSE FloatCell(ParseFloat(vals[i].value))),
           vals, headers, i + 1)

RECURSIVE AddMetrics(_, _, _, _)
\* for i, met_value in enumerate(...): row_data[metric_headers[i]] = float(value)
\* Python evaluates float(...) before it indexes metric_headers.
AddMetrics(row_data, vals, headers, i) ==
    IF i > Len(vals) THEN [err |-> "none", dict |-> row_data]
    ELSE IF ParseFloat(vals[i].value) < 0 THEN [err |-> "ValueError", dict |-> row_data]
    ELSE IF i > Len(headers) THEN [err |-> "IndexError", dict |-> row_data]
    ELSE AddMetrics(DictSet(row_data, headers[i], FloatCell(ParseFloat(vals[i].value))),
                    vals, headers, i + 1)

\* row.get(key, [])
RowValues(row, key) == IF key \in DOMAIN row THEN row[key] ELSE <<>>

\* Variant of FlattenRow: the metrics are added before the dimensions.
FlattenRow_MetricsFirst(row, dimension_headers, metric_headers) ==
    LET mets == AddMetrics(<<>>, RowValues(row, "metricValues"), metric_headers, 1)
    IN IF mets.err # "none" THEN mets
       ELSE AddDimensions(mets.dict, RowValues(row, "dimensionValues"),
                          dimension_headers, 1)

\* One iteration of the loop over rows: the dict appended to flattened_data.
FlattenRow(row, dimension_headers, metric_headers) ==
    LET dims == AddDimensions(<<>>, RowValues(row, "dimensionValues"),
                              dimension_headers, 1)
    IN IF dims.err # "none" THEN dims
       ELSE AddMetrics(dims.dict, RowValues(row, "metricValues"), metric_headers, 1)

RECURSIVE FlattenRows(_, _, _, _)
\* The loop over rows: flattened_data, or the first exception.
FlattenRows(rows, dimension_headers, metric_headers, flattened_data) ==
    IF rows = <<>> THEN [err |-> "none", dicts |-> flattened_data]
    ELSE LET r == FlattenRow(Head(rows), dimension_headers, metric_headers)
         IN IF r.err # "none" THEN [err |-> r.err, dicts |-> flattened_data]
            ELSE FlattenRows(Tail(rows), dimension_headers, metric_headers,
                             Append(flattened_data, r.dict))

GA_RequestBody(metrics, dimensions, start_date, end_date) ==
    [dateRanges |-> << [startDate |-> start_date, endDate |-> end_date] >>,
     metrics |-> [i \in 1..Len(metrics) |-> [name |-> metrics[i]]],
     dimensions |-> [i \in 1..Len(dimensions) |-> [name |-> dimensions[i]]]]

\* Variant of GA_Normalize: the coerced table is returned as it is.
GA_Normalize_Unvalidated(requests, response, verdict) ==
    LET flat == FlattenRows(response["rows"],
                            HeaderNames(response, "dimensionHeaders"),
                            HeaderNames(response, "metricHeaders"), <<>>)
        df == DataFrame(flat.dicts)
        hasDate == Contains(df.columns, "date")
        conv == IF hasDate THEN ToDatetime(df, "date") ELSE [err |-> "none", df |-> df]
        before == IF hasDate THEN <<"request", "flatten", "frame", "to_datetime">>
                  ELSE <<"request", "flatten", "frame">>
    IN IF flat.err # "none"
       THEN Raised(requests, <<"request", "flatten">>, flat.err, <<>>)
       ELSE IF conv.err # "none"
       THEN Raised(requests, before, conv.err, <<>>)
       ELSE Returned(requests, before, conv.df, <<>>)

\* The part of get_data after the rows check: flatten, coerce, validate.
GA_Normalize(requests, response, verdict) ==
    LET flat == FlattenRows(response["rows"],
                            HeaderNames(response, "dimensionHeaders"),
                            HeaderNames(response, "metricHeaders"), <<>>)
        df == DataFrame(flat.dicts)
        hasDate == Contains(df.columns, "date")
        conv == IF hasDate THEN ToDatetime(df, "date") ELSE [err |-> "none", df |-> df]
        before == IF hasDate THEN <<"request", "flatten", "frame", "to_datetime">>
                  ELSE <<"request", "flatten", "frame">>
        val == ValidateData(conv.df, verdict)
    IN IF flat.err # "none"
       THEN Raised(requests, <<"request", "flatten">>, flat.err, <<>>)
       ELSE IF conv.err # "none"
       THEN Raised(requests, before, conv.err, <<>>)
       ELSE IF val.err # "none"
       THEN Raised(requests, Append(before, "validate"), val.err, <<conv.df>>)
       ELSE Returned(requests, Append(before, "validate"), val.df, <<conv.df>>)

\* Variant of get_data: rows is read without the presence check.
GA_get_data_RowsRequired(self, metrics, dimensions, start_date, end_date, http, verdict) ==
    LET dims == IF dimensions.given THEN dimensions.names ELSE <<"date">>
        request_body == GA_RequestBody(metrics, dims, start_date, end_date)
        endpoint == "properties/" \o self.property_id \o ":runReport"
        requests == << BindRequest(<<Str(endpoint)>>,
                                   [k \in {"method", "data"} |->
                                      IF k = "method" THEN Str("POST")
                                      ELSE Obj(request_body)]) >>
        response == MakeRequest(http)
    IN IF response.err # "none"
       THEN Raised(requests, <<"request">>, response.err, <<>>)
       ELSE IF "rows" \notin DOMAIN response.json
       THEN Raised(requests, <<"request">>, "KeyError", <<>>)
       ELSE GA_Normalize(requests, response.json, verdict)

\* get_data(metrics, dimensions, start_date, end_date); dimensions.given is
\* FALSE when the caller leaves dimensions at None.
GA_get_data(self, metrics, dimensions, start_date, end_date, http, verdict) ==
    LET dims == IF dimensions.given THEN dimensions.names ELSE <<"date">>
        request_body == GA_RequestBody(metrics, dims, start_date, end_date)
        endpoint == "properties/" \o self.property_id \o ":runReport"
        requests == << BindRequest(<<Str(endpoint)>>,
                                   [k \in {"method", "data"} |->
                                      IF k = "method" THEN Str("POST")
                                      ELSE Obj(request_body)]) >>
        response == MakeRequest(http)
    IN IF response.err # "none"
       THEN Raised(requests, <<"request">>, response.err, <<>>)
       ELSE IF "rows" \notin DOMAIN response.json
       THEN Returned(requests, <<"request">>, EmptyFrame, <<>>)
       ELSE GA_Normalize(requests, response.json, verdict)

\* Variant of get_traffic_overview: the report is requested a second time.
GA_get_traffic_overview_TwoCalls(self, start_date, end_date, http, verdict) ==
    LET r == GA_get_data(self,
                         <<"sessions", "users", "pageviews", "bounceRate",
                           "averageSessionDuration">>,
                         [given |-> TRUE, names |-> <<"date">>],
                         start_date, end_date, http, verdict)
    IN [r EXCEPT !.requests = @ \o @]

GA_get_traffic_overview(self, start_date, end_date, http, verdict) ==
    GA_get_data(self,
                <<"sessions", "users", "pageviews", "bounceRate", "averageSessionDuration">>,
                [given |-> TRUE, names |-> <<"date">>],
                start_date, end_date, http, verdict)

GA_get_traffic_sources(self, start_date, end_date, http, verdict) ==
    GA_get_data(self, <<"sessions", "users">>,
                [given |-> TRUE, names |-> <<"source", "medium">>],
                start_date, end_date, http, verdict)

\* ---------------------------------------------------- SimilarwebConnector

SW_Catalog ==
    << [name |-> "website_overview"],
       [name |-> "traffic_sources"],
       [name |-> "audience_interests"],
       [name |-> "similar_sites"],
       [name |-> "top_pages"] >>

SW_get_available_datasets ==
    [requests |-> <<>>, steps |-> <<>>, kind |-> "catalog", error |-> "none",
     table |-> EmptyFrame, validated |-> <<>>, catalog |-> SW_Catalog]

\* The part of get_website_overview after the visits check.
SW_Normalize(requests, visits_data, domain, verdict) ==
    LET df0 == DataFrame(visits_data)
        df1 == SetColumn(df0, "domain", StrCell(domain))
        hasDate == Contains(df1.columns, "date")
        conv == IF hasDate THEN ToDatetime(df1, "date")
                ELSE [err |-> "KeyError", df |-> df1]
        val == ValidateData(conv.df, verdict)
    IN IF conv.err # "none"
       THEN Raised(requests, <<"request", "frame", "domain", "to_datetime">>,
                   conv.err, <<>>)
       ELSE IF val.err # "none"
       THEN Raised(requests, <<"request", "frame", "domain", "to_datetime", "validate">>,
                   val.err, <<conv.df>>)
       ELSE Returned(requests, <<"request", "frame", "domain", "to_datetime", "validate">>,
                     val.df, <<conv.df>>)

SW_get_website_overview(self, domain, start_date, end_date, country, granularity, http, verdict) ==
    LET params == [start_date |-> start_date, end_date |-> end_date,
                   country |-> country, granularity |-> granularity,
                   main_domain_only |-> "false"]
        endpoint == "website/" \o domain \o "/total-traffic-and-engagement/visits"
        requests == << BindRequest(<<Str(endpoint), Obj(params)>>, <<>>) >>
        response == MakeRequest(http)
    IN IF response.err # "none"
       THEN Raised(requests, <<"request">>, response.err, <<>>)
       ELSE IF "visits" \notin DOMAIN response.json
       THEN Returned(requests, <<"request">>, EmptyFrame, <<>>)
       ELSE SW_Normalize(requests, response.json["visits"], domain, verdict)

\* get_traffic_sources builds params and ends: no request is made and the
\* method returns None.
SW_get_traffic_sources(self, domain, start_date, end_date, country) ==
    LET params == [start_date |-> start_date, end_date |-> end_date,
                   country |-> country, main_domain_only |-> "false"]
    IN Outcome(<<>>, <<>>, "none", "none", EmptyFrame, <<>>)

\* ------------------------------------------------------------------ inputs

Min(a, b) == IF a < b THEN a ELSE b

DimNames == <<"date", "source", "medium", "country">>

MetNames == <<"sessions", "source", "users", "pageviews">>

Headers(names, k) == [i \in 1..Min(k, Len(names)) |-> [name |-> names[i]]]

MetLiterals == <<"10", "8", "123.45", "10">>

DimValue(name) ==
    CASE name = "date" -> "20240115"
      [] name = "source" -> "google"
      [] OTHER -> "organic"

RowKinds == {"full", "noDims", "noMets", "excessDim", "excessMet", "badMetric", "badDate"}

\* A row of the response, described by how it departs from a row that
\* carries one value per header.
MakeRow(kind, dh, mh) ==
    LET nd == IF kind = "excessDim" THEN Len(dh) + 1 ELSE Len(dh)
        nm == IF kind = "excessMet" THEN Len(mh) + 1 ELSE Len(mh)
        dv == [i \in 1..nd |->
                 [value |-> IF kind = "badDate" THEN "notadate"
                            ELSE IF i > Len(dh) THEN "extra"
                            ELSE DimValue(dh[i].name)]]
        mv == [i \in 1..nm |->
                 [value |-> IF kind = "badMetric" /\ i = 1 THEN "abc"
                            ELSE MetLiterals[Min(i, Len(MetLiterals))]]]
        keys == CASE kind = "noDims" -> {"metricValues"}
                  [] kind = "noMets" -> {"dimensionValues"}
                  [] OTHER -> {"dimensionValues", "metricValues"}
    IN [k \in keys |-> IF k = "dimensionValues" THEN dv ELSE mv]

SeqsUpTo(S, n) == UNION {[1..k -> S] : k \in 0..n}

\* GA4 documents: headers of every length up to MaxHeaders, with or without
\* rows, and the empty document.
GA_Responses ==
    {<<>>} \cup
    UNION {
      {[k \in {"dimensionHeaders", "metricHeaders"} |->
          IF k = "dimensionHeaders" THEN dh ELSE mh]} \cup
      {[k \in {"rows", "dimensionHeaders", "metricHeaders"} |->
          IF k = "dimensionHeaders" THEN dh
          ELSE IF k = "metricHeaders" THEN mh
          ELSE [i \in 1..Len(kinds) |-> MakeRow(kinds[i], dh, mh)]]
       : kinds \in SeqsUpTo(RowKinds, MaxRows)}
      : <<dh, mh>> \in {<<Headers(DimNames, a), Headers(MetNames, b)>> :
                          <<a, b>> \in (0..MaxHeaders) \X (0..MaxHeaders)}}

VisitKinds == {"good", "noDate", "badDate", "ownDomain"}

\* One entry of the visits array, a JSON object with ordered keys.
MakeVisit(kind) ==
    CASE kind = "good" -> << <<"date", StrCell("2024-01")>>, <<"visits", FloatCell(12345)>> >>
      [] kind = "noDate" -> << <<"visits", FloatCell(1000)>> >>
      [] kind = "badDate" -> << <<"date", StrCell("notadate")>>, <<"visits", FloatCell(800)>> >>
      [] OTHER -> << <<"domain", StrCell("other.example")>>,
                     <<"date", StrCell("2024-02")>>, <<"visits", FloatCell(800)>> >>

SW_Responses ==
    {<<>>, [k \in {"meta"} |-> "ok"]} \cup
    {[k \in {"meta", "visits"} |->
        IF k = "meta" THEN <<>> ELSE [i \in 1..Len(kinds) |-> MakeVisit(kinds[i])]]
     : kinds \in SeqsUpTo(VisitKinds, MaxRows)}

HttpFailures == {[err |-> "TransportError", json |-> <<>>],
                 [err |-> "ApiError", json |-> <<>>]}

HttpOutcomes(responses) == HttpFailures \cup {[err |-> "none", json |-> r] : r \in responses}

PropertyIds == {"123", "456"}

DateRanges == {<<"2024-01-01", "2024-01-31">>}

MonthRanges == {<<"2024-01", "2024-02">>}

Domains == {"a.example", "other.example"}

Countries == {"world", "us"}

Granularities == {"monthly", "daily"}

\* Argument lists of get_data: metrics, dimensions (given or left at None),
\* start_date, end_date.
GetDataArgs ==
    {<<<<"sessions">>, [given |-> FALSE, names |-> <<>>], "30daysAgo", "today">>,
     <<<<"sessions", "users">>, [given |-> TRUE, names |-> <<"source", "medium">>],
       "2024-01-01", "2024-01-31">>}

\* ------------------------------------------------------------ state machine

\* last records the call the single-threaded caller made last and what came
\* back; the caller takes the result (TakeResult) before it calls again.
\* verdict is what _validate_data decided, "unused" when it was not called.
Call(conn, op, domain, http, verdict, out) ==
    [conn |-> conn, op |-> op, domain |-> domain, http |-> http,
     verdict |-> IF out.validated = <<>> THEN "unused"
                 ELSE IF verdict THEN "accept" ELSE "reject",
     out |-> out]

NoHttp == [err |-> "unset", json |-> <<>>]

Idle == Call("none", "idle", "", NoHttp, TRUE, Outcome(<<>>, <<>>, "idle", "none", EmptyFrame, <<>>))

\* requests_made is the request count of the rate limiter of the base class.
Init ==
    /\ \E p \in PropertyIds :
         ga = [api_key |-> "token", property_id |-> p, base_url |-> GA_BASE_URL,
               rate_limit_requests |-> GA_RATE_LIMIT_REQUESTS,
               rate_limit_window |-> GA_RATE_LIMIT_WINDOW, requests_made |-> 0]
    /\ sw = [api_key |-> "key", base_url |-> SW_BASE_URL,
             rate_limit_requests |-> SW_RATE_LIMIT_REQUESTS,
             rate_limit_window |-> SW_RATE_LIMIT_WINDOW, requests_made |-> 0]
    /\ last = Idle

\* The caller is between two calls: it holds no result.
Ready == last.op = "idle"

Budget == ga.requests_made + sw.requests_made < MaxRequests

GA_Done(op, http, verdict, out) ==
    /\ last' = Call("ga", op, "", http, verdict, out)
    /\ ga' = [ga EXCEPT !.requests_made = @ + Len(out.requests)]
    /\ UNCHANGED sw

SW_Done(op, domain, http, verdict, out) ==
    /\ last' = Call("sw", op, domain, http, verdict, out)
    /\ sw' = [sw EXCEPT !.requests_made = @ + Len(out.requests)]
    /\ UNCHANGED ga

GA_GetAvailableDatasets ==
    /\ Ready
    /\ GA_Done("get_available_datasets", NoHttp, TRUE, GA_get_available_datasets)

GA_GetData ==
    /\ Ready
    /\ Budget
    /\ \E a \in GetDataArgs, http \in HttpOutcomes(GA_Responses), verdict \in BOOLEAN :
         GA_Done("get_data", http, verdict,
                 GA_get_data(ga, a[1], a[2], a[3], a[4], http, verdict))

GA_GetTrafficOverview ==
    /\ Ready
    /\ Budget
    /\ \E d \in DateRanges, http \in HttpOutcomes(GA_Responses), verdict \in BOOLEAN :
         GA_Done("get_traffic_overview", http, verdict,
                 GA_get_traffic_overview(ga, d[1], d[2], http, verdict))

GA_GetTrafficSources ==
    /\ Ready
    /\ Budget
    /\ \E d \in DateRanges, http \in HttpOutcomes(GA_Responses), verdict \in BOOLEAN :
         GA_Done("get_traffic_sources", http, verdict,
                 GA_get_traffic_sources(ga, d[1], d[2], http, verdict))

SW_GetAvailableDatasets ==
    /\ Ready
    /\ SW_Done("get_available_datasets", "", NoHttp, TRUE, SW_get_available_datasets)

SW_GetWebsiteOverview ==
    /\ Ready
    /\ Budget
    /\ \E domain \in Domains, m \in MonthRanges, country \in Countries,
          granularity \in Granularities, http \in HttpOutcomes(SW_Responses),
          verdict \in BOOLEAN :
         SW_Done("get_website_overview", domain, http, verdict,
                 SW_get_website_overview(sw, domain, m[1], m[2], country, granularity,
                                         http, verdict))

SW_GetTrafficSources ==
    /\ Ready
    /\ \E domain \in Domains, m \in MonthRanges, country \in Countries :
         SW_Done("get_traffic_sources", domain, NoHttp, TRUE,
                 SW_get_traffic_sources(sw, domain, m[1], m[2], country))

TakeResult ==
    /\ ~Ready
    /\ last' = Idle
    /\ UNCHANGED <<ga, sw>>

Next ==
    \/ GA_GetAvailableDatasets
    \/ GA_GetData
    \/ GA_GetTrafficOverview
    \/ GA_GetTrafficSources
    \/ SW_GetAvailableDatasets
    \/ SW_GetWebsiteOverview
    \/ SW_GetTrafficSources
    \/ TakeResult

Spec == Init /\ [][Next]_vars

\* --------------------------------------------------------- shared vocabulary

GA_FetchOps == {"get_data", "get_traffic_overview", "get_traffic_sources"}

IsGAFetch == last.conn = "ga" /\ last.op \in GA_FetchOps

IsOverview == last.conn = "sw" /\ last.op = "get_website_overview"

IsSWSources == last.conn = "sw" /\ last.op = "get_traffic_sources"

IsDatasets == last.op = "get_available_datasets"

Answered == last.http.err = "none"

HasRows == IsGAFetch /\ Answered /\ "rows" \in DOMAIN last.http.json

HasVisits == IsOverview /\ Answered /\ "visits" \in DOMAIN last.http.json

LacksRows == IsGAFetch /\ Answered /\ "rows" \notin DOMAIN last.http.json

LacksVisits == IsOverview /\ Answered /\ "visits" \notin DOMAIN last.http.json

ReturnsTable == last.out.kind = "table"

RowCount == Len(last.out.table.data)

DimHeaderNames == HeaderNames(last.http.json, "dimensionHeaders")

MetHeaderNames == HeaderNames(last.http.json, "metricHeaders")

AllHeaderNames == DimHeaderNames \o MetHeaderNames

Distinct(seq) == \A i, j \in 1..Len(seq) : seq[i] = seq[j] => i = j

\* Row r of the response carries exactly one value per header.
RowIsFull(r) ==
    LET row == last.http.json["rows"][r]
    IN /\ Len(RowValues(row, "dimensionValues")) = Len(DimHeaderNames)
       /\ Len(RowValues(row, "metricValues")) = Len(MetHeaderNames)

\* ------------------------------------------------------------------------ C1

\* C1 as stated, for the calls that do not end in an error: for every GA4
\* response with rows present and not empty, get_data returns a table with len(rows) rows
\* whose columns are the dimensionHeaders names followed by the
\* metricHeaders names, whatever the shape of the rows.
C1_Original ==
    (HasRows /\ last.http.json["rows"] # <<>> /\ last.out.kind # "error") =>
      /\ ReturnsTable
      /\ RowCount = Len(last.http.json["rows"])
      /\ last.out.table.columns = AllHeaderNames

\* C1 amended: whenever get_data returns a table for a response with rows
\* present, the table has len(rows) rows, each with one cell per column, and
\* every column is a header name; the columns are the dimensionHeaders names
\* followed by the metricHeaders names when the first row carries one value
\* per header and the header names are pairwise distinct.
C1_Amended ==
    (HasRows /\ ReturnsTable) =>
      /\ RowCount = Len(last.http.json["rows"])
      /\ \A r \in 1..RowCount :
           Len(last.out.table.data[r]) = Len(last.out.table.columns)
      /\ \A c \in 1..Len(last.out.table.columns) :
           Contains(AllHeaderNames, last.out.table.columns[c])
      /\ (RowCount > 0 /\ RowIsFull(1) /\ Distinct(AllHeaderNames))
           => last.out.table.columns = AllHeaderNames

\* Two rows, the first full, under a dimension header and a metric header.
C1_Witness ==
    /\ HasRows /\ ReturnsTable
    /\ RowCount = 2
    /\ RowIsFull(1) /\ ~RowIsFull(2)
    /\ Distinct(AllHeaderNames)
    /\ Len(DimHeaderNames) > 0 /\ Len(MetHeaderNames) > 0
    /\ last.out.table.columns = AllHeaderNames

\* ------------------------------------------------------------------------ C2

\* C2: when the response lacks rows (get_data) or visits
\* (get_website_overview), the operation returns a table with zero rows and
\* raises nothing, whatever else the response contains.
C2_MissingFieldEmptyTable ==
    (LacksRows \/ LacksVisits) =>
      /\ ReturnsTable
      /\ last.out.error = "none"
      /\ RowCount = 0

\* A GA4 response that carries headers but no rows came back as a table.
C2_Witness ==
    /\ LacksRows
    /\ Len(DimHeaderNames) > 0
    /\ ReturnsTable
    /\ RowCount = 0

\* ------------------------------------------------------------------------ C3

\* The malformed or empty responses C3 lists.
EmptyPrimary ==
    \/ HasRows /\ last.http.json["rows"] = <<>>
    \/ HasVisits /\ last.http.json["visits"] = <<>>

NoVisitHasDate ==
    HasVisits /\ \A i \in 1..Len(last.http.json["visits"]) :
                   ~HasKey(last.http.json["visits"][i], "date")

SomeRowExceedsHeaders ==
    HasRows /\ \E r \in 1..Len(last.http.json["rows"]) :
                 \/ Len(RowValues(last.http.json["rows"][r], "dimensionValues"))
                      > Len(DimHeaderNames)
                 \/ Len(RowValues(last.http.json["rows"][r], "metricValues"))
                      > Len(MetHeaderNames)

\* C3 as stated, for the calls in which the validation pass rejects nothing:
\* an empty primary array, a visits array without any date key, or GA4 rows
\* with more values than headers yield a zero-row table, never a failure.
C3_Claim ==
    ((EmptyPrimary \/ NoVisitHasDate \/ SomeRowExceedsHeaders)
       /\ last.verdict # "reject") =>
      /\ ReturnsTable
      /\ RowCount = 0

\* ------------------------------------------------------------------------ C4

\* C4 as stated: Similarweb get_traffic_sources issues one GET with the
\* parameters start_date, end_date, country, main_domain_only and always
\* returns a table.
C4_Claim ==
    IsSWSources =>
      /\ Len(last.out.requests) = 1
      /\ ReturnsTable

\* ------------------------------------------------------------------------ C5

Count(seq, x) == Cardinality({i \in 1..Len(seq) : seq[i] = x})

\* The call issued a request: every fetch but Similarweb get_traffic_sources.
IsRequestingFetch == IsGAFetch \/ IsOverview

IsFetch == IsRequestingFetch \/ IsSWSources

ValidatedLast ==
    /\ Len(last.out.validated) = 1
    /\ Count(last.out.steps, "validate") = 1
    /\ Count(last.out.steps, "request") = 1
    /\ last.out.steps[1] = "request"
    /\ last.out.steps[Len(last.out.steps)] = "validate"
    /\ last.out.table = ValidateData(last.out.validated[1], TRUE).df

\* C5 as stated: every fetch that returns a table has called _validate_data
\* exactly once, after the request and all coercion, and returns its value.
C5_Original == (IsFetch /\ ReturnsTable) => ValidatedLast

\* C5 amended: a fetch that returns a table for a response that carries the
\* primary field has called _validate_data exactly once, as its last step,
\* after the request and all coercion, and returns its value; a fetch that
\* returns a table for a response without the primary field has not called
\* _validate_data at all.
C5_Amended ==
    (IsFetch /\ ReturnsTable) =>
      IF HasRows \/ HasVisits
      THEN ValidatedLast
      ELSE /\ last.out.validated = <<>>
           /\ last.out.steps = <<"request">>

\* A validated GA4 table with a parsed date column.
C5_Witness ==
    /\ HasRows /\ ReturnsTable
    /\ RowCount > 0
    /\ last.out.steps = <<"request", "flatten", "frame", "to_datetime", "validate">>
    /\ last.verdict = "accept"

\* ------------------------------------------------------------------------ C6

SomeMetricNonNumeric ==
    HasRows /\ \E r \in 1..Len(last.http.json["rows"]) :
                 LET mv == RowValues(last.http.json["rows"][r], "metricValues")
                 IN \E i \in 1..Len(mv) : ParseFloat(mv[i].value) < 0

\* A date dimension holds a string that does not parse, and no metric
\* overwrites the date key.
SomeRowDateMalformed ==
    /\ HasRows
    /\ Contains(DimHeaderNames, "date")
    /\ ~Contains(MetHeaderNames, "date")
    /\ \E r \in 1..Len(last.http.json["rows"]) :
         LET dv == RowValues(last.http.json["rows"][r], "dimensionValues")
             j == IndexOf(DimHeaderNames, "date")
         IN j <= Len(dv) /\ ParseDate(dv[j].value) < 0

SomeVisitDateMalformed ==
    HasVisits /\ \E i \in 1..Len(last.http.json["visits"]) :
                   LET e == last.http.json["visits"][i]
                   IN HasKey(e, "date") /\ ParseDate(DictGet(e, "date").s) < 0

NoTable == last.out.kind = "error" /\ last.out.table = EmptyFrame

DomainColumn == IndexOf(last.out.table.columns, "domain")

\* Row r of the table is entry r of visits: every other column holds the
\* entry's value, NaN where the entry lacks the key, the date parsed.
RowIsVisit(r) ==
    LET e == last.http.json["visits"][r]
        cols == last.out.table.columns
    IN \A c \in 1..Len(cols) :
         last.out.table.data[r][c] =
           IF cols[c] = "domain" THEN StrCell(last.domain)
           ELSE IF cols[c] = "date" THEN ToDatetimeCell(DictGet(e, "date"))
           ELSE DictGet(e, cols[c])

OneRowPerVisit ==
    /\ RowCount = Len(last.http.json["visits"])
    /\ Contains(last.out.table.columns, "domain")
    /\ \A r \in 1..RowCount : RowIsVisit(r)

\* C7 as stated, for responses in which some entry carries a date and the
\* validation pass rejects nothing: get_website_overview returns a table
\* with one row per entry of visits, in order, whose domain column is the
\* domain argument.
C7_Original ==
    (HasVisits /\ last.verdict # "reject"
       /\ \E i \in 1..Len(last.http.json["visits"]) :
            HasKey(last.http.json["visits"][i], "date")) =>
      (ReturnsTable /\ OneRowPerVisit)

\* C7 amended: whenever get_website_overview returns a table for a response
\* with visits present, the table has one row per entry of visits, in
\* order, and every row's domain column is the domain argument.
C7_Amended == (HasVisits /\ ReturnsTable) => OneRowPerVisit

\* An entry that carries its own domain, different from the argument.
C7_Witness ==
    /\ HasVisits /\ ReturnsTable
    /\ RowCount = 2
    /\ last.domain = "a.example"
    /\ \E i \in 1..2 :
         /\ HasKey(last.http.json["visits"][i], "domain")
         /\ DictGet(last.http.json["visits"][i], "domain") # StrCell(last.domain)
         /\ last.out.table.data[i][DomainColumn] = StrCell(last.domain)

\* ------------------------------------------------------------------------ C8

\* C8: every public method issues at most one request per invocation, and
\* get_available_datasets issues none.
C8_AtMostOneRequest ==
    /\ Len(last.out.requests) <= 1
    /\ IsDatasets => Len(last.out.requests) = 0

\* A convenience wrapper that went through get_data and got rows back.
C8_Witness ==
    /\ last.conn = "ga" /\ last.op = "get_traffic_overview"
    /\ Len(last.out.requests) = 1
    /\ ReturnsTable /\ RowCount > 0

\* ------------------------------------------------------------------------ C9

\* C9 as stated: get_website_overview hands _make_request(endpoint, method,
\* params|data) the method GET and the five query parameters in the params
\* slot.
C9_Claim ==
    IsOverview =>
      /\ Len(last.out.requests) = 1
      /\ last.out.requests[1].method.kind = "str"
      /\ last.out.requests[1].method.v = "GET"
      /\ last.out.requests[1].params.kind = "obj"
      /\ DOMAIN last.out.requests[1].params.v =
           {"start_date", "end_date", "country", "granularity", "main_domain_only"}

\* ----------------------------------------------------------------------- C10

CatalogNames(catalog) == [i \in 1..Len(catalog) |-> catalog[i].name]

FixedCatalog(call) ==
    IF call.conn = "ga"
    THEN /\ CatalogNames(call.out.catalog) =
              <<"sessions", "users", "pageviews", "bounceRate", "sessionDuration",
                "date", "country", "deviceCategory", "source", "medium">>
         /\ \A i \in 1..5 : call.out.catalog[i].type = "metric"
         /\ \A i \in 6..10 : call.out.catalog[i].type = "dimension"
    ELSE CatalogNames(call.out.catalog) =
           <<"website_overview", "traffic_sources", "audience_interests",
             "similar_sites", "top_pages">>

\* C10: every call of get_available_datasets, wherever it falls among the
\* other calls, returns the same fixed catalog, issues no request and leaves
\* credentials, property_id and the rate-limit state of both connectors as
\* they were.
C10_DatasetsPure ==
    [][last'.op = "get_available_datasets" =>
         /\ FixedCatalog(last')
         /\ last'.out.requests = <<>>
         /\ ga' = ga
         /\ sw' = sw]_vars

\* The catalog is asked for after the connector has issued requests.
C10_Witness ==
    /\ IsDatasets
    /\ last.conn = "ga"
    /\ ga.requests_made = MaxRequests
    /\ Len(last.out.catalog) = 10

====
